---------------------------- MODULE Spec2Model ----------------------------
(***************************************************************************)
(* Surveillance Daily Report Builder (app_desktop.py).                     *)
(*                                                                         *)
(* Two parts of the program are modelled:                                  *)
(*   - parse_printed_csv_from_path: the label/value scanner of the printed *)
(*     CSV export, one action per branch of its token loop (SpecParse);    *)
(*   - build_email_html: the high-priority filter, the routing of records  *)
(*     into report sections and the joining of their Details (SpecBuild).  *)
(* Text is kept as TLA+ strings; strip, upper and substring search are     *)
(* computed character by character.                                        *)
(***************************************************************************)
EXTENDS Naturals, Sequences, FiniteSets

VARIABLES
    pc,                 \* parser position: "read", "scan", "done"
    fileLeft,           \* size of the part of the file not yet read
    row,                \* the row being scanned
    i,                  \* cursor into row (1-based; the code's i + 1)
    cur,                \* the record in progress
    records,            \* records flushed so far
    frame,              \* the DataFrame returned by the parser
    df_src,             \* the DataFrame handed to build_email_html
    high_priority_only, \* option of build_email_html
    red_flag_topics,    \* option of build_email_html
    built,              \* "idle", "done" or "error": outcome of the last build
    buckets,            \* section name -> index labels of its member rows
    html                \* section name -> rendered text

parserVars == <<pc, fileLeft, row, i, cur, records, frame>>
buildVars  == <<df_src, high_priority_only, red_flag_topics, built, buckets, html>>
vars       == <<pc, fileLeft, row, i, cur, records, frame,
                df_src, high_priority_only, red_flag_topics, built, buckets, html>>

---------------------------------------------------------------------------
(* Bounds of the model.                                                    *)

MaxFileSize == 6    \* size of the input file: its tokens plus its row ends
MaxRecords  == 2    \* rows of the DataFrame handed to build_email_html

---------------------------------------------------------------------------
(* Text primitives (Python str methods).                                   *)

IsSpace(c) == c = " "

RECURSIVE lstrip(_)
lstrip(s) ==
    IF s = "" THEN ""
    ELSE IF IsSpace(Head(s)) THEN lstrip(Tail(s)) ELSE s

RECURSIVE rstrip(_)
rstrip(s) ==
    IF s = "" THEN ""
    ELSE IF IsSpace(SubSeq(s, Len(s), Len(s)))
         THEN rstrip(SubSeq(s, 1, Len(s) - 1))
         ELSE s

\* str.strip()
strip(s) == rstrip(lstrip(s))

LowerLetters == "abcdefghijklmnopqrstuvwxyz"
UpperLetters == "ABCDEFGHIJKLMNOPQRSTUVWXYZ"

ToUpper ==
    [c \in {SubSeq(LowerLetters, k, k) : k \in 1..Len(LowerLetters)} |->
        LET k == CHOOSE k \in 1..Len(LowerLetters) : SubSeq(LowerLetters, k, k) = c
        IN  SubSeq(UpperLetters, k, k)]

UpperChar(c) == IF c \in DOMAIN ToUpper THEN ToUpper[c] ELSE c

\* str.upper()
RECURSIVE upper(_)
upper(s) == IF s = "" THEN "" ELSE UpperChar(Head(s)) \o upper(Tail(s))

\* sub in s
contains(s, sub) ==
    \E k \in 1..(Len(s) + 1) :
        /\ k + Len(sub) - 1 <= Len(s)
        /\ SubSeq(s, k, k + Len(sub) - 1) = sub

\* Series.str.contains(alternatives, case=False) for one cell
contains_any_nocase(s, alternatives) ==
    LET folded == upper(s)
    IN  \E a \in alternatives : contains(folded, upper(a))

---------------------------------------------------------------------------
(* Parser configuration.                                                   *)

LABEL_MAP ==
    [l \in {"Log #:", "Department:", "Property:", "Owner:", "Location:",
            "Created By:", "Sublocation:", "Occurred:", "End Time:",
            "Camera/Monitor:", "Status:", "Duration:", "Topic:", "Details:"} |->
        CASE l = "Log #:"          -> "LogNumber"
          [] l = "Department:"     -> "Department"
          [] l = "Property:"       -> "Property"
          [] l = "Owner:"          -> "Owner"
          [] l = "Location:"       -> "Location"
          [] l = "Created By:"     -> "Created By"
          [] l = "Sublocation:"    -> "Sublocation"
          [] l = "Occurred:"       -> "Occurred"
          [] l = "End Time:"       -> "End Time"
          [] l = "Camera/Monitor:" -> "Camera/Monitor"
          [] l = "Status:"         -> "Status"
          [] l = "Duration:"       -> "Duration"
          [] l = "Topic:"          -> "Topic"
          [] l = "Details:"        -> "Details"]

IGNORE_TOKENS == {"Daily Log Detailed List Report", "Page 1 / 1"}

HIGH_PRIORITY_TOKEN == "High Priority"

Labels == DOMAIN LABEL_MAP

FieldNames == {LABEL_MAP[l] : l \in Labels}

\* cur = {k: "" for k in LABEL_MAP.values()}; cur["HighPriorityBool"] = False
NewRecord ==
    [k \in FieldNames \cup {"HighPriorityBool"} |->
        IF k = "HighPriorityBool" THEN FALSE ELSE ""]

---------------------------------------------------------------------------
(* Rows the csv reader can yield.                                          *)

TokenPool ==
    {"Log #:", "Topic:", "Details:", "Location:", "High Priority", "Page 1 / 1",
     "Jackpot", " $500 payout ", " "}

RECURSIVE SeqsUpTo(_, _)
SeqsUpTo(S, n) ==
    IF n = 0 THEN {<<>>}
    ELSE LET shorter == SeqsUpTo(S, n - 1)
         IN  shorter \cup {Append(s, x) : s \in shorter, x \in S}

\* the rows that fit in a file part of the given size (a row ends with a row end)
Rows(size) == SeqsUpTo(TokenPool, size - 1)

---------------------------------------------------------------------------
(* parse_printed_csv_from_path                                             *)

\* token = (row[i] or "").strip()
token == strip(row[i])

\* mutant: the peeked token is not stripped
nxt_unstripped == row[i + 1]

\* nxt = (row[i + 1] or "").strip()
nxt == strip(row[i + 1])

\* mutant: the peeked token is taken as the value whatever it is
is_plain_value_always(t) == TRUE

\* mutant: the marker is not excluded from the values
is_plain_value_or_marker(t) == t \notin Labels /\ t \notin IGNORE_TOKENS

\* nxt not in LABEL_MAP and nxt != HIGH_PRIORITY_TOKEN and nxt not in IGNORE_TOKENS
is_plain_value(t) ==
    /\ t \notin Labels
    /\ t # HIGH_PRIORITY_TOKEN
    /\ t \notin IGNORE_TOKENS

\* mutant: only the Topic is looked at
flush_guard_topic_only(r) == r["Topic"] # ""

\* any(cur.get(k) for k in ["LogNumber", "Topic", "Details"])
flush_guard(r) == \E k \in {"LogNumber", "Topic", "Details"} : r[k] # ""

\* flush_record(cur)
flush_record(recs, r) == IF flush_guard(r) THEN Append(recs, r) ELSE recs

\* df[(Topic.str.len() > 0) | (Details.str.len() > 0) | (LogNumber.str.len() > 0)]
keep_meaningful(recs) ==
    SelectSeq(recs, LAMBDA r : Len(r["Topic"]) > 0 \/ Len(r["Details"]) > 0
                                 \/ Len(r["LogNumber"]) > 0)

\* for row in reader: if not row: continue; cur = ...; i, n = 0, len(row)
ReadRow ==
    /\ pc = "read"
    /\ fileLeft >= 1
    /\ \E r \in Rows(fileLeft) :
         /\ fileLeft' = fileLeft - (Len(r) + 1)
         /\ IF r = <<>>
            THEN UNCHANGED <<pc, row, i, cur>>
            ELSE /\ pc' = "scan"
                 /\ row' = r
                 /\ i' = 1
                 /\ cur' = NewRecord
    /\ UNCHANGED <<records, frame>>
    /\ UNCHANGED buildVars

\* if not token or token in IGNORE_TOKENS: i += 1; continue
SkipToken ==
    /\ pc = "scan"
    /\ i <= Len(row)
    /\ token = "" \/ token \in IGNORE_TOKENS
    /\ i' = i + 1
    /\ UNCHANGED <<pc, fileLeft, row, cur, records, frame>>
    /\ UNCHANGED buildVars

\* if token == HIGH_PRIORITY_TOKEN: cur["HighPriorityBool"] = True; i += 1; continue
MarkHighPriority ==
    /\ pc = "scan"
    /\ i <= Len(row)
    /\ ~(token = "" \/ token \in IGNORE_TOKENS)
    /\ token = HIGH_PRIORITY_TOKEN
    /\ cur' = [cur EXCEPT !["HighPriorityBool"] = TRUE]
    /\ i' = i + 1
    /\ UNCHANGED <<pc, fileLeft, row, records, frame>>
    /\ UNCHANGED buildVars

\* mutant: a label with no plain value after it leaves the field as it was
LabelToken_keep_earlier ==
    /\ pc = "scan"
    /\ i <= Len(row)
    /\ ~(token = "" \/ token \in IGNORE_TOKENS)
    /\ token # HIGH_PRIORITY_TOKEN
    /\ token \in Labels
    /\ LET key == LABEL_MAP[token]
       IN  IF i + 1 <= Len(row) /\ is_plain_value(nxt)
           THEN /\ cur' = [cur EXCEPT ![key] = nxt]
                /\ i' = i + 2
           ELSE /\ cur' = cur
                /\ i' = i + 1
    /\ UNCHANGED <<pc, fileLeft, row, records, frame>>
    /\ UNCHANGED buildVars

\* if token in LABEL_MAP: ... value = nxt; i += 1 ... cur[key] = value; i += 1
LabelToken ==
    /\ pc = "scan"
    /\ i <= Len(row)
    /\ ~(token = "" \/ token \in IGNORE_TOKENS)
    /\ token # HIGH_PRIORITY_TOKEN
    /\ token \in Labels
    /\ LET key == LABEL_MAP[token]
       IN  IF i + 1 <= Len(row) /\ is_plain_value(nxt)
           THEN /\ cur' = [cur EXCEPT ![key] = nxt]
                /\ i' = i + 2
           ELSE /\ cur' = [cur EXCEPT ![key] = ""]
                /\ i' = i + 1
    /\ UNCHANGED <<pc, fileLeft, row, records, frame>>
    /\ UNCHANGED buildVars

\* any other token: i += 1
OtherToken ==
    /\ pc = "scan"
    /\ i <= Len(row)
    /\ ~(token = "" \/ token \in IGNORE_TOKENS)
    /\ token # HIGH_PRIORITY_TOKEN
    /\ token \notin Labels
    /\ i' = i + 1
    /\ UNCHANGED <<pc, fileLeft, row, cur, records, frame>>
    /\ UNCHANGED buildVars

\* while i < n exits; flush_record(cur)
EndRow ==
    /\ pc = "scan"
    /\ i > Len(row)
    /\ records' = flush_record(records, cur)
    /\ pc' = "read"
    /\ UNCHANGED <<fileLeft, row, i, cur, frame>>
    /\ UNCHANGED buildVars

\* the reader is exhausted: df = DataFrame.from_records(records); keep meaningful rows
EndFile ==
    /\ pc = "read"
    /\ frame' = keep_meaningful(records)
    /\ pc' = "done"
    /\ UNCHANGED <<fileLeft, row, i, cur, records>>
    /\ UNCHANGED buildVars

BuildIdle ==
    /\ df_src = <<>>
    /\ high_priority_only = TRUE
    /\ red_flag_topics = <<>>
    /\ built = "idle"
    /\ buckets = <<>>
    /\ html = <<>>

InitParse ==
    /\ pc = "read"
    /\ fileLeft = MaxFileSize
    /\ row = <<>>
    /\ i = 1
    /\ cur = NewRecord
    /\ records = <<>>
    /\ frame = <<>>
    /\ BuildIdle

NextParse ==
    \/ ReadRow
    \/ SkipToken
    \/ MarkHighPriority
    \/ LabelToken
    \/ OtherToken
    \/ EndRow
    \/ EndFile

SpecParse == InitParse /\ [][NextParse]_vars

---------------------------------------------------------------------------
(* Render helpers.                                                         *)

Range(f) == {f[k] : k \in DOMAIN f}

\* sep.join(lines)
RECURSIVE join(_, _)
join(sep, lines) ==
    IF lines = <<>> THEN ""
    ELSE IF Len(lines) = 1 THEN lines[1]
    ELSE lines[1] \o sep \o join(sep, Tail(lines))

\* lines_join_section(lines, compact)
lines_join_section(lines, compact) ==
    IF lines = <<>> THEN "N/A"
    ELSE join(IF compact THEN "<br>" ELSE "<br><br>", lines)

\* mutant: the Location is printed before the Details
details_with_location(r) == strip(r["Location"] \o " " \o r["Details"])

\* details_only(row)
details_only(r) == strip(r["Details"])

\* [details_only(r) for _, r in frame.iterrows()]
details_of(src, d) == [k \in DOMAIN d |-> details_only(src[d[k]])]

\* rows_by_topics(df, topics); a frame is the sequence of its index labels
rows_by_topics(src, d, topics) ==
    IF d = <<>> THEN d ELSE SelectSeq(d, LAMBDA k : src[k]["Topic"] \in topics)

table_markers == {"BJ", "RB", "RL", "UTH", "LIR", "POKER"}

\* is_table_games_site(row)
is_table_games_site(r) ==
    LET loc == upper(r["Location"])
        sub == upper(r["Sublocation"])
    IN  \/ contains(loc, "PIT")
        \/ \E m \in table_markers : contains(sub, m)

\* mutant: the markers are looked for without upper-casing the cells
is_table_games_observation_case_sensitive(r) ==
    /\ r["Topic"] = "Observation"
    /\ \/ contains(r["Location"], "PIT")
       \/ \E m \in table_markers : contains(r["Sublocation"], m)

\* mutant: only the Sublocation is consulted
is_table_games_observation_sublocation_only(r) ==
    /\ r["Topic"] = "Observation"
    /\ \E m \in table_markers : contains(upper(r["Sublocation"]), m)

\* is_table_games_observation(row)
is_table_games_observation(r) ==
    IF r["Topic"] # "Observation" THEN FALSE
    ELSE LET loc == upper(r["Location"])
             sub == upper(r["Sublocation"])
         IN  \/ contains(loc, "PIT")
             \/ \E m \in table_markers : contains(sub, m)

---------------------------------------------------------------------------
(* build_email_html: topic sets.                                           *)

topics_reviews ==
    {"Requested Review", "Requested Observation", "Surveillance Initiated Review",
     "Service Review"}
topics_slots == {"Jackpot"}
topics_removals ==
    {"Removal", "Alcohol related removal", "PPA Issued/Violation",
     "Self-Exclusion Violation", "Self-Exclusion Application",
     "Behaviour Related Removal"}
topics_misc ==
    {"FINTRAC", "Information", "Security Escort", "Other", "Access Control",
     "Criminal Activity - Driving under the influence", "Criminal Activity - Theft",
     "Integrity - Unsecured Assets", "Integrity"}
topics_highlights == {"Straight Flush", "Kings Bounty", "Royal Flush", "Four of a Kind"}
topics_idshots == {"Pit Scan"}
topics_parkade == {"Parkade Scan"}
topics_visitors == {"Surveillance Visitor Log"}

---------------------------------------------------------------------------
(* build_email_html: the frames. src is df_src; d is df, the filtered      *)
(* frame, as the sequence of the index labels it keeps.                    *)

\* mutant: the high_priority_only option is ignored
high_priority_filter_off(src, hp_only) == [k \in 1..Len(src) |-> k]

\* df = df_src.copy(); if high_priority_only: df = df[df["HighPriorityBool"]]
high_priority_filter(src, hp_only) ==
    SelectSeq([k \in 1..Len(src) |-> k],
              LAMBDA k : hp_only => src[k]["HighPriorityBool"])

obs_df(src, d) == rows_by_topics(src, d, {"Observation"})

tables_df(src, d) ==
    SelectSeq(obs_df(src, d), LAMBDA k : is_table_games_observation(src[k]))

\* test.py: is_table_games_observation(row), table_markers = {"PIT"} on Location
test_is_table_games_observation(r) ==
    IF r["Topic"] # "Observation" THEN FALSE
    ELSE LET sub == upper(r["Location"])
         IN  \E m \in {"PIT"} : contains(sub, m)

\* test.py: tables_df
test_tables_df(src, d) ==
    SelectSeq(obs_df(src, d), LAMBDA k : test_is_table_games_observation(src[k]))

obs_cage_count_df(src, d) ==
    SelectSeq(obs_df(src, d),
              LAMBDA k : contains_any_nocase(src[k]["Location"], {"Cage", "Count Room"}))

obs_misc_df(src, d) ==
    LET tables_index == Range(tables_df(src, d))
        cage_count_index == Range(obs_cage_count_df(src, d))
    IN  SelectSeq(obs_df(src, d),
                  LAMBDA k : k \notin tables_index /\ k \notin cage_count_index)

\* rows_by_topics(df, red_flag_topics) if red_flag_topics else []
red_flag_rows(src, d, rft) ==
    IF rft # <<>> THEN rows_by_topics(src, d, Range(rft)) ELSE <<>>

misc_df(src, d) == rows_by_topics(src, d, topics_misc)

\* mutant: the Observation leftovers are not folded into Misc
misc_combined_without_obs(src, d) == misc_df(src, d)

\* mutant: the two frames concatenated the other way round
misc_combined_topics_first(src, d) == misc_df(src, d) \o obs_misc_df(src, d)

\* pd.concat([obs_misc_df, misc_df], ignore_index=True)
misc_combined_df(src, d) == obs_misc_df(src, d) \o misc_df(src, d)

pro_df(src, d) == rows_by_topics(src, d, {"Procedural Error"})

pro_cage_count_rows(src, d) ==
    SelectSeq(pro_df(src, d),
              LAMBDA k : contains_any_nocase(src[k]["Location"],
                             {"Cage", "Count Room", "Main Bank", "TITO Self Redemption"}))

pro_tables_rows(src, d) ==
    SelectSeq(pro_df(src, d), LAMBDA k : is_table_games_site(src[k]))

pro_misc_rows_df(src, d) ==
    LET cage_count_index == Range(pro_cage_count_rows(src, d))
        tables_index == Range(pro_tables_rows(src, d))
    IN  SelectSeq(pro_df(src, d),
                  LAMBDA k : k \notin cage_count_index /\ k \notin tables_index)

\* mutant: the red-flag topics are not counted as handled
handled_topics_without_red_flags(rft) ==
    topics_reviews \cup {"Observation"} \cup topics_slots \cup topics_removals
        \cup topics_misc \cup topics_highlights \cup topics_idshots
        \cup topics_parkade \cup topics_visitors \cup {"Procedural Error"}

handled_topics(rft) ==
    topics_reviews \cup {"Observation"} \cup topics_slots \cup topics_removals
        \cup topics_misc \cup topics_highlights \cup topics_idshots
        \cup topics_parkade \cup topics_visitors \cup {"Procedural Error"}
        \cup Range(rft)

not_cat_df(src, d, rft) ==
    LET handled == handled_topics(rft)
    IN  SelectSeq(d, LAMBDA k : src[k]["Topic"] \notin handled)

\* "N/A" -> "" for the sections that suppress the placeholder
suppress_na(text) == IF text = "N/A" THEN "" ELSE text

\* the member rows of every section
section_rows(src, hp_only, rft) ==
    LET d == high_priority_filter(src, hp_only)
    IN  [RedFlags                 |-> red_flag_rows(src, d, rft),
         Reviews                  |-> rows_by_topics(src, d, topics_reviews),
         Highlights               |-> rows_by_topics(src, d, topics_highlights),
         Slots                    |-> rows_by_topics(src, d, topics_slots),
         Removals                 |-> rows_by_topics(src, d, topics_removals),
         IdShots                  |-> rows_by_topics(src, d, topics_idshots),
         Parkade                  |-> rows_by_topics(src, d, topics_parkade),
         Visitors                 |-> rows_by_topics(src, d, topics_visitors),
         MiscTopic                |-> misc_df(src, d),
         Tables                   |-> tables_df(src, d),
         CageCount                |-> obs_cage_count_df(src, d),
         MiscOther                |-> obs_misc_df(src, d),
         Misc                     |-> misc_combined_df(src, d),
         ProceduralErrorTables    |-> pro_tables_rows(src, d),
         ProceduralErrorCageCount |-> pro_cage_count_rows(src, d),
         ProceduralErrorMisc      |-> pro_misc_rows_df(src, d),
         NotCategorized           |-> not_cat_df(src, d, rft)]

\* the text of every section placed in the document
section_text(src, b) ==
    [RedFlags   |-> lines_join_section(details_of(src, b.RedFlags), FALSE),
     Reviews    |-> lines_join_section(details_of(src, b.Reviews), FALSE),
     Highlights |-> suppress_na(lines_join_section(details_of(src, b.Highlights), FALSE)),
     Slots      |-> lines_join_section(details_of(src, b.Slots), TRUE),
     Removals   |-> lines_join_section(details_of(src, b.Removals), FALSE),
     IdShots    |-> lines_join_section(details_of(src, b.IdShots), TRUE),
     Parkade    |-> lines_join_section(details_of(src, b.Parkade), TRUE),
     Visitors   |-> lines_join_section(details_of(src, b.Visitors), TRUE),
     Tables     |-> lines_join_section(details_of(src, b.Tables), TRUE),
     CageCount  |-> lines_join_section(details_of(src, b.CageCount), TRUE),
     Misc       |-> suppress_na(lines_join_section(details_of(src, b.Misc), FALSE)),
     ProceduralErrorTables |->
        suppress_na(lines_join_section(details_of(src, b.ProceduralErrorTables), FALSE)),
     ProceduralErrorCageCount |->
        suppress_na(lines_join_section(details_of(src, b.ProceduralErrorCageCount), FALSE)),
     ProceduralErrorMisc |->
        suppress_na(lines_join_section(details_of(src, b.ProceduralErrorMisc), FALSE)),
     NotCategorized |-> lines_join_section(details_of(src, b.NotCategorized), FALSE)]

---------------------------------------------------------------------------
(* Frames the parser can return and options the form can give.             *)

Rec(topic, loc, sub, details, hp) ==
    [NewRecord EXCEPT !["Topic"] = topic, !["Location"] = loc,
                      !["Sublocation"] = sub, !["Details"] = details,
                      !["HighPriorityBool"] = hp]

\* (Location, Sublocation) of the Observation and Procedural Error records
Sites ==
    {<<"Pit 3", "">>, <<"Main Floor", "BJ10">>, <<"Cage 1", "">>,
     <<"Slot Floor", "">>, <<"Cage 1", "BJ10">>, <<"Main Bank", "">>,
     <<"count room", "">>, <<"Main Floor", "Poker 2">>}

\* topics of the records whose routing does not read the location
OtherTopics ==
    {"Jackpot", "FINTRAC", "Requested Review", "Straight Flush", "Removal",
     "Pit Scan", "Parkade Scan", "Surveillance Visitor Log", "Robbery", ""}

RecordPool ==
    {Rec(t, s[1], s[2], "seen", TRUE) :
        t \in {"Observation", "Procedural Error"}, s \in Sites}
    \cup {Rec(t, "", "", "noted", TRUE) : t \in OtherTopics}
    \cup {Rec("Jackpot", "", "", "noted", FALSE),
          Rec("Observation", "Pit 3", "", "seen", FALSE),
          Rec("Robbery", "", "", "noted", FALSE)}
    \cup {Rec("Straight Flush", "", "", "N/A", TRUE),
          Rec("Jackpot", "", "", "N/A", TRUE),
          Rec("Straight Flush", "", "", "", TRUE),
          [Rec("Jackpot", "Slot Floor", "", "noted", TRUE)
              EXCEPT !["LogNumber"] = "L-1", !["Owner"] = "Lee", !["Status"] = "Open"]}

Frames == SeqsUpTo(RecordPool, MaxRecords)

RedFlagChoices == {<<>>, <<"Jackpot">>, <<"Robbery", "FINTRAC">>}

---------------------------------------------------------------------------
(* App.generate: build_email_html on the parsed frame.                     *)

\* generate, once parse_printed_csv_from_path has returned: one build of the
\* parsed frame (build_email_html keeps nothing between calls). An empty frame
\* has no Topic or Location column: build_email_html raises KeyError and
\* generate shows "Build error".
Generate ==
    /\ pc = "done"
    /\ built = "idle"
    /\ \E hp \in BOOLEAN, rft \in RedFlagChoices :
         /\ df_src' = frame
         /\ high_priority_only' = hp
         /\ red_flag_topics' = rft
         /\ IF frame = <<>>
            THEN /\ built' = "error"
                 /\ UNCHANGED <<buckets, html>>
            ELSE LET b == section_rows(frame, hp, rft)
                 IN  /\ built' = "done"
                     /\ buckets' = b
                     /\ html' = section_text(frame, b)
    /\ UNCHANGED parserVars

InitBuild ==
    /\ pc = "done"
    /\ fileLeft = 0
    /\ row = <<>>
    /\ i = 1
    /\ cur = NewRecord
    /\ frame \in Frames
    /\ records = frame
    /\ BuildIdle

NextBuild == Generate

SpecBuild == InitBuild /\ [][NextBuild]_vars

---------------------------------------------------------------------------
(* Properties of build_email_html (checked under SpecBuild).               *)

\* the index labels the high-priority filter keeps
Filtered ==
    {k \in 1..Len(df_src) : high_priority_only => df_src[k]["HighPriorityBool"]}

Members(name) == Range(buckets[name])

TopicExactBuckets ==
    {"RedFlags", "Reviews", "Highlights", "Slots", "Removals", "IdShots",
     "Parkade", "Visitors", "MiscTopic"}

\* the sections placed in the document
ReportBuckets ==
    {"RedFlags", "Reviews", "Highlights", "Slots", "Removals", "IdShots",
     "Parkade", "Visitors", "Misc", "Tables", "CageCount",
     "ProceduralErrorTables", "ProceduralErrorCageCount", "ProceduralErrorMisc",
     "NotCategorized"}

AllBuckets == ReportBuckets \cup {"MiscTopic", "MiscOther"}

TopicOf(k) == df_src[k]["Topic"]

\* C1: once the report is built, every record the high-priority filter keeps is a
\* member of at least one of the sections of the report.
C1_NoRecordLost ==
    built = "done" =>
        \A k \in Filtered : \E name \in ReportBuckets : k \in Members(name)

\* C1 witness: a kept Observation leftover sits in Misc and a kept record of an
\* unknown topic sits in Not Categorized.
C1_Witness ==
    /\ built = "done"
    /\ \E k \in Filtered : TopicOf(k) = "Observation" /\ k \in Members("Misc")
    /\ \E k \in Filtered : TopicOf(k) = "Robbery" /\ k \in Members("NotCategorized")

\* C2: every kept Observation record is in exactly one of Tables, CageCount and
\* Misc-Other; a record matching the Tables predicate is not in CageCount.
C2_ObservationPartition ==
    built = "done" =>
        \A k \in Filtered :
            TopicOf(k) = "Observation" =>
                Cardinality({name \in {"Tables", "CageCount", "MiscOther"} :
                                k \in Members(name)}) = 1

\* C3: every kept Procedural Error record is in exactly one of
\* ProceduralErrorTables, ProceduralErrorCageCount and ProceduralErrorMisc.
C3_ProceduralErrorPartition ==
    built = "done" =>
        \A k \in Filtered :
            TopicOf(k) = "Procedural Error" =>
                Cardinality({name \in {"ProceduralErrorTables",
                                       "ProceduralErrorCageCount",
                                       "ProceduralErrorMisc"} :
                                k \in Members(name)}) = 1

\* C4: no kept record is a member of two different topic-exact sections, red
\* flags included.
C4_TopicBucketsExclusive ==
    built = "done" =>
        \A k \in Filtered :
            Cardinality({name \in TopicExactBuckets : k \in Members(name)}) <= 1

\* C5: Not Categorized holds exactly the kept records whose topic is in none of
\* the topic sets, is not "Observation" or "Procedural Error" and is no red-flag
\* topic; such a record is in no other section, and a kept record with an empty
\* topic is always there.
C5_NotCategorizedExact ==
    built = "done" =>
        /\ Members("NotCategorized") =
             {k \in Filtered :
                 /\ TopicOf(k) \notin topics_reviews \cup topics_slots
                        \cup topics_removals \cup topics_misc \cup topics_highlights
                        \cup topics_idshots \cup topics_parkade \cup topics_visitors
                 /\ TopicOf(k) \notin {"Observation", "Procedural Error"}
                 /\ TopicOf(k) \notin Range(red_flag_topics)}
        /\ Len(buckets["NotCategorized"]) = Cardinality(Members("NotCategorized"))
        /\ \A k \in Members("NotCategorized") :
             \A name \in AllBuckets \ {"NotCategorized"} : k \notin Members(name)
        /\ \A k \in Filtered : TopicOf(k) = "" => k \in Members("NotCategorized")

\* C5 witness: with "Robbery" given as a red-flag topic, a Robbery record is a
\* red flag and not in Not Categorized, while a record with an empty topic is.
C5_Witness ==
    /\ built = "done"
    /\ \E k \in Filtered :
         /\ TopicOf(k) = "Robbery"
         /\ k \in Members("RedFlags")
         /\ k \notin Members("NotCategorized")
    /\ \E k \in Filtered : TopicOf(k) = "" /\ k \in Members("NotCategorized")

\* C6: with high_priority_only every member of every section has the flag set;
\* without it no record is removed; Slots holds the Jackpot records that pass.
C6_HighPriorityFilter ==
    built = "done" =>
        /\ high_priority_only =>
             \A name \in AllBuckets :
                 \A k \in Members(name) : df_src[k]["HighPriorityBool"]
        /\ ~high_priority_only =>
             \A k \in 1..Len(df_src) : \E name \in ReportBuckets : k \in Members(name)
        /\ Members("Slots") =
             {k \in 1..Len(df_src) :
                 /\ TopicOf(k) = "Jackpot"
                 /\ high_priority_only => df_src[k]["HighPriorityBool"]}

\* C6 witness: two Jackpot records that differ only in the flag, the filter on:
\* only the flagged one is in Slots.
C6_Witness ==
    /\ built = "done"
    /\ high_priority_only
    /\ Len(df_src) = 2
    /\ df_src[1] = [df_src[2] EXCEPT !["HighPriorityBool"] = TRUE]
    /\ ~df_src[2]["HighPriorityBool"]
    /\ TopicOf(1) = "Jackpot"
    /\ buckets["Slots"] = <<1>>

Increasing(s) == \A a, b \in DOMAIN s : a < b => s[a] < s[b]

\* C10 as claimed: in every section of the report, Misc included, the members
\* stand in the order of the input.
C10_EverySectionInInputOrder ==
    built = "done" => \A name \in ReportBuckets : Increasing(buckets[name])

\* C10 as amended: every section but Misc keeps the order of the input; Misc is
\* the Observation leftovers in input order followed by the misc-topic records
\* in input order.
C10_StableOrder ==
    built = "done" =>
        /\ \A name \in AllBuckets \ {"Misc"} : Increasing(buckets[name])
        /\ buckets["Misc"] = buckets["MiscOther"] \o buckets["MiscTopic"]
        /\ \A k \in Members("MiscOther") : TopicOf(k) = "Observation"
        /\ \A k \in Members("MiscTopic") : TopicOf(k) \in topics_misc

\* C10 witness: a misc-topic record stands before an Observation leftover in the
\* input and after it in Misc.
C10_Witness ==
    /\ built = "done"
    /\ \E a, b \in DOMAIN buckets["Misc"] :
         /\ a < b
         /\ buckets["Misc"][a] > buckets["Misc"][b]
         /\ TopicOf(buckets["Misc"][a]) = "Observation"
         /\ TopicOf(buckets["Misc"][b]) \in topics_misc

---------------------------------------------------------------------------
(* Properties of parse_printed_csv_from_path (checked under SpecParse).    *)

\* at least one of logNumber, topic, details is non-empty
Retained(r) == r["LogNumber"] # "" \/ r["Topic"] # "" \/ r["Details"] # ""

\* the scan of the row is over and its record has not been flushed yet
RowScanned == pc = "scan" /\ i > Len(row)

\* the tokens of the pool as the parser reads them: trimmed
Trimmed == [t \in TokenPool |-> strip(t)]

\* the token at position p of the row, as the parser reads it
Tok(r, p) == Trimmed[r[p]]

\* a label, the high-priority marker or an ignored token
Structural(t) == t \in Labels \/ t = HIGH_PRIORITY_TOKEN \/ t \in IGNORE_TOKENS

\* C7: the row just scanned adds its record to the output if and only if one of
\* logNumber, topic, details is non-empty, nothing else changes the output,
\* every record of the output and of the returned frame satisfies this, and the
\* returned frame is the output.
C7_RetentionInvariant ==
    /\ [](/\ \A k \in DOMAIN records : Retained(records[k])
          /\ pc = "done" => frame = records)
    /\ [][/\ RowScanned =>
                records' = IF Retained(cur) THEN Append(records, cur) ELSE records
          /\ ~RowScanned => records' = records]_vars

\* C7 witness: a first row gave a record; the second row set only Location and
\* gave none.
C7_Witness ==
    /\ pc = "read"
    /\ Len(records) = 1
    /\ cur["Location"] # ""
    /\ ~Retained(cur)
    /\ cur # records[1]

\* C8: a label followed by a label, the marker, an ignored token or the end of
\* the row sets its field to the empty string and moves the cursor by exactly
\* one; the token the cursor then stands on is processed in its own right: a
\* marker sets highPriority, a label followed by a plain value takes that value.
C8_PeekAheadNeverSwallows ==
    [][(pc = "scan" /\ i <= Len(row)) =>
         /\ (/\ Tok(row, i) \in Labels
             /\ (i = Len(row) \/ Structural(Tok(row, i + 1)))) =>
                /\ cur' = [cur EXCEPT ![LABEL_MAP[Tok(row, i)]] = ""]
                /\ i' = i + 1
                /\ pc' = "scan" /\ row' = row
         /\ Tok(row, i) = HIGH_PRIORITY_TOKEN =>
                /\ cur' = [cur EXCEPT !["HighPriorityBool"] = TRUE]
                /\ i' = i + 1
                /\ pc' = "scan" /\ row' = row
         /\ (/\ Tok(row, i) \in Labels
             /\ i < Len(row) /\ ~Structural(Tok(row, i + 1))) =>
                /\ cur' = [cur EXCEPT ![LABEL_MAP[Tok(row, i)]] = Tok(row, i + 1)]
                /\ i' = i + 2
                /\ pc' = "scan" /\ row' = row
         /\ Tok(row, i) \in IGNORE_TOKENS =>
                /\ cur' = cur
                /\ i' = i + 1
                /\ pc' = "scan" /\ row' = row]_vars

\* C8 witness: "Topic:", "Details:", value, marker: Topic stays empty, Details
\* still gets its value and the marker still sets the flag.
C8_Witness ==
    /\ RowScanned
    /\ Len(row) = 5
    /\ Tok(row, 1) = "Topic:" /\ Tok(row, 2) = "Details:"
    /\ Tok(row, 3) = "$500 payout"
    /\ Tok(row, 4) = "Location:" /\ Tok(row, 5) = HIGH_PRIORITY_TOKEN
    /\ cur["Topic"] = "" /\ cur["Details"] = "$500 payout"
    /\ cur["Location"] = "" /\ cur["HighPriorityBool"]

\* a token between pairs: the marker, an ignored token or an empty token
Filler(t) == t = "" \/ t = HIGH_PRIORITY_TOKEN \/ t \in IGNORE_TOKENS

\* a value: a non-empty token that is no label, marker or ignored token
PlainValue(raw) == raw # "" /\ ~Structural(strip(raw))

\* the positions of the labels of a row made of label/value pairs and fillers,
\* from position p on; {0} is added when the row is not of that form
RECURSIVE PairStarts(_, _)
PairStarts(r, p) ==
    IF p > Len(r) THEN {}
    ELSE IF Filler(Tok(r, p)) THEN PairStarts(r, p + 1)
    ELSE IF Tok(r, p) \in Labels /\ p < Len(r) /\ PlainValue(r[p + 1])
         THEN {p} \cup PairStarts(r, p + 2)
    ELSE {0}

PairRow(r) ==
    /\ 0 \notin PairStarts(r, 1)
    /\ \A p, q \in PairStarts(r, 1) : p # q => Tok(r, p) # Tok(r, q)

\* the record the claim expects of a pair row
ExpectedRecord(r) ==
    [f \in FieldNames \cup {"HighPriorityBool"} |->
        IF f = "HighPriorityBool"
        THEN \E p \in DOMAIN r : Tok(r, p) = HIGH_PRIORITY_TOKEN
        ELSE IF \E p \in PairStarts(r, 1) : LABEL_MAP[Tok(r, p)] = f
             THEN LET p == CHOOSE p \in PairStarts(r, 1) : LABEL_MAP[Tok(r, p)] = f
                  IN  strip(r[p + 1])
             ELSE ""]

\* C9: when a row of label/value pairs with distinct labels, with markers,
\* ignored and empty tokens between the pairs, has been scanned, each labelled
\* field holds its trimmed value, every other field is empty and highPriority
\* is true exactly when the marker is in the row.
C9_ParserRoundTrip ==
    (RowScanned /\ PairRow(row)) => cur = ExpectedRecord(row)

\* C9 witness: "Topic:", "Jackpot", "High Priority", "Details:", "$500 payout".
C9_Witness ==
    /\ RowScanned
    /\ PairRow(row)
    /\ Len(row) = 5
    /\ Tok(row, 1) = "Topic:" /\ Tok(row, 2) = "Jackpot"
    /\ Tok(row, 3) = HIGH_PRIORITY_TOKEN
    /\ Tok(row, 4) = "Details:" /\ Tok(row, 5) = "$500 payout"
    /\ cur = [NewRecord EXCEPT !["Topic"] = "Jackpot", !["HighPriorityBool"] = TRUE,
                               !["Details"] = "$500 payout"]

---------------------------------------------------------------------------
(* Properties of the section texts (checked under SpecBuild).              *)

CompactBuckets == {"Tables", "Slots", "IdShots", "Parkade"}

\* the trimmed details of the members of a section, in the section's order
MemberDetails(name) ==
    [k \in DOMAIN buckets[name] |-> strip(df_src[buckets[name][k]]["Details"])]

\* C11: a section with two or more members is joined with a single line break
\* if it is Tables, Slots, IdShots or Parkade, and with a double line break if
\* it is any other section (CageCount and Visitors included).
C11_LayoutPolicy ==
    built = "done" =>
        \A name \in ReportBuckets :
            Len(buckets[name]) >= 2 =>
                html[name] = join(IF name \in CompactBuckets THEN "<br>" ELSE "<br><br>",
                                  MemberDetails(name))

\* the sections that show the placeholder when empty
PlaceholderBuckets ==
    {"RedFlags", "Reviews", "Tables", "Slots", "CageCount", "Removals", "IdShots",
     "Parkade", "Visitors", "NotCategorized"}

\* C12: an empty section renders as "N/A" if it is one of RedFlags, Reviews,
\* Tables, Slots, CageCount, Removals, IdShots, Parkade, Visitors,
\* NotCategorized, and as the empty string if it is Highlights, Misc or a
\* Procedural-Error section; a non-empty section renders as "N/A" or as the
\* empty string only if the joined details of its members are that very text.
C12_EmptyBucketRendering ==
    built = "done" =>
        \A name \in ReportBuckets :
            /\ buckets[name] = <<>> =>
                 html[name] = IF name \in PlaceholderBuckets THEN "N/A" ELSE ""
            /\ (buckets[name] # <<>> /\ html[name] \in {"N/A", ""}) =>
                 /\ Len(buckets[name]) = 1
                 /\ MemberDetails(name)[1] = html[name]

\* the frame with every field but Details erased
Redacted(src) ==
    [k \in DOMAIN src |-> [NewRecord EXCEPT !["Details"] = src[k]["Details"]]]

\* C13: the text of every section is made of the trimmed details of its
\* members (joined, or the placeholder, or nothing) and is the text the same
\* routing gives when every field but Details is erased: frames that agree on
\* the details and on the routing of each record render the same text,
\* whatever their Location, Sublocation, LogNumber, Owner, Status.
C13_DetailsOnly ==
    built = "done" =>
        /\ html = section_text(Redacted(df_src), buckets)
        /\ \A name \in ReportBuckets :
             html[name] \in {join("<br>", MemberDetails(name)),
                             join("<br><br>", MemberDetails(name)), "N/A", ""}

\* C13 witness: a section prints a member that has a Location, and another a
\* member that has a LogNumber, an Owner and a Status.
C13_Witness ==
    /\ built = "done"
    /\ \E k \in Members("CageCount") :
         df_src[k]["Location"] # "" /\ html["CageCount"] = strip(df_src[k]["Details"])
    /\ \E k \in Members("Slots") :
         /\ df_src[k]["LogNumber"] # "" /\ df_src[k]["Owner"] # ""
         /\ df_src[k]["Status"] # ""
         /\ html["Slots"] = strip(df_src[k]["Details"])

\* the location or the sublocation names a table game
TablesSite(r) ==
    \/ contains_any_nocase(r["Location"], {"PIT"})
    \/ contains_any_nocase(r["Sublocation"], {"BJ", "RB", "RL", "UTH", "LIR", "POKER"})

At(k, loc, sub) == df_src[k]["Location"] = loc /\ df_src[k]["Sublocation"] = sub

\* C14: the Tables section holds exactly the filtered Observation records whose
\* location contains PIT or whose sublocation contains one of BJ, RB, RL, UTH,
\* LIR, POKER, case-insensitively; so an Observation at (Pit 3, "") or at
\* (Main Floor, BJ10) is in Tables, one at Cage 1 is in CageCount, one at
\* (Slot Floor, "") is in the other-observations part of Misc and not in
\* Tables; a record of any other topic is never in Tables.
C14_TablesPredicate ==
    built = "done" =>
        /\ Members("Tables") =
               {k \in Filtered : TopicOf(k) = "Observation" /\ TablesSite(df_src[k])}
        /\ \A k \in Filtered :
             TopicOf(k) = "Observation" =>
                 /\ (At(k, "Pit 3", "") \/ At(k, "Main Floor", "BJ10")) => k \in Members("Tables")
                 /\ df_src[k]["Location"] = "Cage 1" => k \in Members("CageCount")
                 /\ At(k, "Slot Floor", "") =>
                        k \in Members("MiscOther") /\ k \notin Members("Tables")
        /\ \A k \in Members("Tables") : TopicOf(k) = "Observation"

\* C14 witness: an Observation at Pit 3 is in Tables and next to it a
\* Procedural Error at Pit 3 is not.
C14_Witness ==
    /\ built = "done"
    /\ Len(df_src) = 2
    /\ TopicOf(1) = "Observation" /\ At(1, "Pit 3", "")
    /\ TopicOf(2) = "Procedural Error" /\ At(2, "Pit 3", "")
    /\ buckets["Tables"] = <<1>>

C15_MarkerNeverLost ==
    pc = "scan" =>
        (cur["HighPriorityBool"] <=>
            \E p \in 1..(i - 1) : Tok(row, p) = HIGH_PRIORITY_TOKEN)

\* C15 witness: the marker stands directly after a label and after a value: the
\* label's field is empty and the flag is set.
C15_Witness ==
    /\ RowScanned
    /\ Len(row) = 4
    /\ Tok(row, 1) = "Topic:" /\ Tok(row, 2) = "Jackpot"
    /\ Tok(row, 3) = "Details:" /\ Tok(row, 4) = HIGH_PRIORITY_TOKEN
    /\ cur["Topic"] = "Jackpot" /\ cur["Details"] = ""
    /\ cur["HighPriorityBool"]

\* the positions of the row where the label of field f stands
LabelPositions(r, f) ==
    {p \in DOMAIN r : Tok(r, p) \in Labels /\ LABEL_MAP[Tok(r, p)] = f}

\* the value a label at position p assigns
ValueAt(r, p) ==
    IF p < Len(r) /\ ~Structural(Tok(r, p + 1)) THEN Tok(r, p + 1) ELSE ""

Last(ps) == CHOOSE p \in ps : \A q \in ps : q <= p

\* C16: when a row has been scanned, each field holds the value assigned at the
\* last occurrence of its label in the row (the empty string when no plain
\* value follows that occurrence, whatever an earlier occurrence assigned),
\* and the empty string when its label does not occur.
C16_LastOccurrenceWins ==
    RowScanned =>
        \A f \in FieldNames :
            LET ps == LabelPositions(row, f)
            IN  cur[f] = IF ps = {} THEN "" ELSE ValueAt(row, Last(ps))

\* C16 witness: "Topic:", "Jackpot", "Topic:": the second label empties the
\* topic and the row's record fails the retention check.
C16_Witness ==
    /\ RowScanned
    /\ Len(row) = 3
    /\ Tok(row, 1) = "Topic:" /\ Tok(row, 2) = "Jackpot" /\ Tok(row, 3) = "Topic:"
    /\ cur["Topic"] = ""
    /\ ~Retained(cur)

=============================================================================
